---- MODULE Spec2Model ----
(***************************************************************************)
(* Verification model of the webshell detector:                            *)
(*   - the detection engine (internal/detector, pkg/mlmodel): Detect and   *)
(*     its sub-methods featureMatch, behaviorAnalyze, mlDetect and         *)
(*     calculateTotalScore;                                                *)
(*   - the Realtime and Scheduled schedulers (internal/scanner): the       *)
(*     worker pool, the completion counter, Start, Stop and the dispatch   *)
(*     loops.                                                              *)
(* float64 values are modelled as exact fractions <<n, d>> extended with   *)
(* the IEEE-754 specials: <<1,0>> is +Inf, <<-1,0>> is -Inf, <<0,0>> is    *)
(* NaN.  A finite result whose magnitude exceeds MaxFloat overflows to an  *)
(* infinity, Inf - Inf is NaN, and every ordered comparison with NaN is    *)
(* false, as in Go.                                                        *)
(***************************************************************************)
EXTENDS Integers, Sequences, FiniteSets, TLC

VARIABLES
    cfg,        \* Detector.config: the detection enable flags
    mlModel,    \* Detector.mlModel: NoModel (nil) or a loaded model
    pc,         \* position of the Detect call
    content,    \* the bytes read from the file, as a list of tokens
    trace,      \* the tracer's combined output, as a set of lines
    behErr,     \* how behaviorAnalyze ended ("none": it returned a result)
    result,     \* the DetectionResult being filled in
    startErr,   \* what ManualScanner.Start returned ("pending": not yet)
    sandbox,    \* the scratch directory of behaviorAnalyze exists
    scfg,       \* the scheduler's kind and the configuration it reads
    isRunning,  \* BaseScanner.isRunning
    workerPool, \* number of tokens in the workerPool channel
    waitGroup,  \* the counter of BaseScanner.waitGroup
    tasks,      \* the scan goroutines spawned so far: [path, pc]
    caller,     \* position of the thread that calls Start and Stop
    stopped,    \* Stop of a running scheduler has returned, no Start since
    lastErr,    \* what the last Start or Stop returned
    watcher,    \* the fsnotify watcher: "open" or "closed"
    loop,       \* position of the goroutine Start launched
    event,      \* the event the watch loop has received
    nEvents,    \* events delivered so far
    ticker,     \* ScheduledScanner.ticker: "nil", "running" or "stopped"
    tick,       \* a tick is waiting in ticker.C
    nTicks,     \* ticks fired so far
    walkPos,    \* position of scanAll in the files it walks
    pass,       \* the current full-tree pass: entries spawned, entries unreadable
    tcfg,       \* the clock reading at Start and the schedule configuration
    clock,      \* time elapsed since Start, in half hours
    wakeAt,     \* when time.Sleep(delay) ends
    tickAt,     \* when the ticker fires next
    scans       \* the times at which full-tree scans began

detectVars == <<cfg, mlModel, pc, content, trace, behErr, result, startErr,
               sandbox>>

schedVars == <<scfg, isRunning, workerPool, waitGroup, tasks, caller, stopped,
               lastErr, watcher, loop, event, nEvents, ticker, tick, nTicks,
               walkPos, pass>>

timeVars == <<tcfg, clock, wakeAt, tickAt, scans>>

vars == <<cfg, mlModel, pc, content, trace, behErr, result, startErr, sandbox,
          scfg, isRunning, workerPool, waitGroup, tasks, caller, stopped,
          lastErr, watcher, loop, event, nEvents, ticker, tick, nTicks,
          walkPos, pass, tcfg, clock, wakeAt, tickAt, scans>>

-----------------------------------------------------------------------------
(* float64 arithmetic                                                      *)

\* Largest finite magnitude of the modelled float64 (math.MaxFloat64, scaled).
MaxFloat == 1000

Abs(n) == IF n < 0 THEN -n ELSE n

Sign(n) == IF n < 0 THEN -1 ELSE IF n > 0 THEN 1 ELSE 0

RECURSIVE Gcd(_, _)
Gcd(a, b) == IF b = 0 THEN a ELSE Gcd(b, a % b)

NaN == <<0, 0>>
PosInf == <<1, 0>>
NegInf == <<-1, 0>>

IsNaN(a) == a[2] = 0 /\ a[1] = 0
IsInf(a) == a[2] = 0 /\ a[1] # 0
IsFinite(a) == a[2] # 0

\* The float64 nearest to n/d (d > 0): the reduced fraction, or an infinity
\* when the magnitude is past the largest finite value.
Round(n, d) ==
    IF Abs(n) > MaxFloat * d
    THEN <<Sign(n), 0>>
    ELSE LET g == Gcd(Abs(n), d) IN <<n \div g, d \div g>>

Flt(n) == Round(n, 1)

FAdd(a, b) ==
    IF IsNaN(a) \/ IsNaN(b) THEN NaN
    ELSE IF IsInf(a) /\ IsInf(b) THEN (IF a[1] = b[1] THEN a ELSE NaN)
    ELSE IF IsInf(a) THEN a
    ELSE IF IsInf(b) THEN b
    ELSE Round(a[1] * b[2] + b[1] * a[2], a[2] * b[2])

FMul(a, b) ==
    IF IsNaN(a) \/ IsNaN(b) THEN NaN
    ELSE IF IsInf(a) \/ IsInf(b)
         THEN (IF a[1] = 0 \/ b[1] = 0 THEN NaN ELSE <<Sign(a[1]) * Sign(b[1]), 0>>)
    ELSE Round(a[1] * b[1], a[2] * b[2])

\* a / b for a finite, non-zero b (the weight sum is at least 0.5).
FDiv(a, b) ==
    IF IsNaN(a) THEN NaN
    ELSE IF IsInf(a) THEN <<a[1] * Sign(b[1]), 0>>
    ELSE Round(a[1] * b[2] * Sign(b[1]), a[2] * Abs(b[1]))

\* a > b, false when either side is NaN.
FGt(a, b) ==
    /\ ~IsNaN(a)
    /\ ~IsNaN(b)
    /\ IF IsInf(a) \/ IsInf(b)
       THEN (IF IsInf(a) /\ IsInf(b) THEN a[1] > b[1]
             ELSE IF IsInf(a) THEN a[1] > 0
             ELSE b[1] < 0)
       ELSE a[1] * b[2] > b[1] * a[2]

FLt(a, b) == FGt(b, a)

FEq(a, b) == ~IsNaN(a) /\ ~IsNaN(b) /\ a = b

FGe(a, b) == FGt(a, b) \/ FEq(a, b)

FLe(a, b) == FGe(b, a)

-----------------------------------------------------------------------------
(* Inputs of a detection: file content, tracer output, model               *)

\* File content is a list of tokens, one per line.  No operation of the
\* detector depends on the order of the tokens, so only the lists in token
\* order are enumerated.
Tokens == <<"eval(", "system(", "array_map(", "$_GET", "<?php">>

\* Bound: tokens in a file.
MaxTokens == 2

\* Bound: rule-engine matches reported for one file.
MaxYaraMatches == 3

TokenSet == {Tokens[i] : i \in DOMAIN Tokens}

TokenIdx(t) == CHOOSE i \in DOMAIN Tokens : Tokens[i] = t

Contents ==
    {c \in UNION {[1..n -> TokenSet] : n \in 0..MaxTokens} :
        \A i \in DOMAIN c : \A j \in DOMAIN c :
            i < j => TokenIdx(c[i]) <= TokenIdx(c[j])}

RECURSIVE ContentLenFrom(_, _)
ContentLenFrom(c, i) ==
    IF i > Len(c) THEN 0 ELSE Len(c[i]) + 1 + ContentLenFrom(c, i + 1)

\* len(content): every token is followed by a newline.
ContentLen(c) == ContentLenFrom(c, 1)

\* strings.Count(fileStr, s) for a substring s that is one of the tokens.
Count(c, s) == Cardinality({i \in DOMAIN c : c[i] = s})

\* A line of tracer output and the searched substrings it contains.
TraceLines ==
    { [text |-> "unlink(\"/var/www/html/a.php\") = 0", has |-> {"unlink("}],
      [text |-> "execve(\"sh\", [\"sh\"], ...) = 0", has |-> {"execve(\"sh\""}],
      [text |-> "execve(\"bash\", [\"bash\"], ...) = 0", has |-> {"execve(\"bash\""}],
      [text |-> "open(\"/etc/shadow\", O_RDONLY) = 3", has |-> {"open(\"/etc/shadow"}],
      [text |-> "openat(AT_FDCWD, \"/tmp/sess_1\", O_RDWR) = 4", has |-> {"/tmp/"}] }

\* strings.Contains(straceOutput, s)
Contains(tr, s) == \E l \in tr : s \in l.has

\* config.Detection.Yara.MaxFileSize, in bytes.
YaraMaxFileSize == 20

NoModel == [loaded |-> FALSE, FeatureCount |-> 0, Weights |-> <<>>]

WeightVals == {Flt(-MaxFloat), <<1, 50>>, Flt(MaxFloat)}

\* The models a model file can hold: any declared feature count, any weights,
\* as many or fewer weights than declared features.  The third and the fifth
\* feature are 0 for every content above, so their weights are fixed; the
\* two other occurrence counts share one weight.
Models ==
    {NoModel} \cup
    {[loaded |-> TRUE, FeatureCount |-> 5, Weights |-> <<Flt(0)>>]} \cup
    {[loaded |-> TRUE, FeatureCount |-> 4,
      Weights |-> <<Flt(0), Flt(0), Flt(0), Flt(0)>>]} \cup
    {[loaded |-> TRUE, FeatureCount |-> 5,
      Weights |-> <<w1, w2, Flt(0), w2, Flt(0)>>] :
        w1 \in WeightVals, w2 \in WeightVals}

-----------------------------------------------------------------------------
(* featureMatch                                                            *)

\* WebshellPatterns: the score of each pattern and the tokens it matches.
WebshellPatterns ==
    << [Pattern |-> "dangerous function call", Score |-> 100,
        Matches |-> {"eval(", "system("}],
       [Pattern |-> "dynamic function execution", Score |-> 80,
        Matches |-> {"array_map("}],
       [Pattern |-> "decoding of a literal", Score |-> 100, Matches |-> {}],
       [Pattern |-> "input assigned to a variable", Score |-> 80, Matches |-> {}],
       [Pattern |-> "self-modifying file operation", Score |-> 80, Matches |-> {}] >>

\* re.MatchString(fileStr)
MatchString(p, c) == \E i \in DOMAIN c : c[i] \in WebshellPatterns[p].Matches

RECURSIVE RegexFrom(_, _)
RegexFrom(c, p) ==
    IF p > Len(WebshellPatterns)
    THEN [score |-> Flt(0), matches |-> <<>>]
    ELSE LET rest == RegexFrom(c, p + 1) IN
         IF MatchString(p, c)
         THEN [score |-> FAdd(Flt(WebshellPatterns[p].Score), rest.score),
               matches |-> <<WebshellPatterns[p].Pattern>> \o rest.matches]
         ELSE rest

\* A regex phase in which every dangerous function that occurs adds the weight
\* of the first pattern, instead of the pattern adding it once.
matchRegexPatterns_PerFunction(c) ==
    LET r == RegexFrom(c, 1)
        n == Cardinality({t \in WebshellPatterns[1].Matches :
                             \E i \in DOMAIN c : c[i] = t})
    IN IF n > 1
       THEN [r EXCEPT !.score = FAdd(r.score, Flt(WebshellPatterns[1].Score * (n - 1)))]
       ELSE r

\* matchRegexPatterns: every pattern that matches adds its score once.
matchRegexPatterns(c) == RegexFrom(c, 1)

\* Rule matches that add the default rule score 10 instead of 50.
matchYaraRules_TenPerMatch(n) ==
    [score |-> IF FGt(Flt(10 * n), Flt(100)) THEN Flt(100) ELSE Flt(10 * n),
     matches |-> [i \in 1..n |-> "rule"]]

\* n rule matches in all: 50 each, the sum clamped to 100.
matchYaraRules(n) ==
    [score |-> IF FGt(Flt(50 * n), Flt(100)) THEN Flt(100) ELSE Flt(50 * n),
     matches |-> [i \in 1..n |-> "rule"]]

\* The FeatureMatchResult, or err = TRUE when the content is too large.
featureMatch(c, yaraEnabled, n) ==
    IF ContentLen(c) > YaraMaxFileSize
    THEN [err |-> TRUE, Score |-> Flt(0), Matches |-> <<>>]
    ELSE LET regex == matchRegexPatterns(c)
             yara  == IF yaraEnabled THEN matchYaraRules(n)
                      ELSE [score |-> Flt(0), matches |-> <<>>]
             sum   == FAdd(regex.score, yara.score)
         IN [err |-> FALSE,
             Score |-> IF FGt(sum, Flt(100)) THEN Flt(100) ELSE sum,
             Matches |-> regex.matches \o yara.matches]

-----------------------------------------------------------------------------
(* behaviorAnalyze: interpretation of the tracer output                    *)

RECURSIVE SumScores(_)
SumScores(S) ==
    IF S = {} THEN Flt(0)
    ELSE LET e == CHOOSE x \in S : TRUE
         IN FAdd(Flt(e.score), SumScores(S \ {e}))

dangerousFileOps ==
    { [pattern |-> "unlink(",  score |-> 30, behavior |-> "Attempted to delete files"],
      [pattern |-> "rmdir(",   score |-> 20, behavior |-> "Attempted to delete directories"],
      [pattern |-> "chmod(",   score |-> 20, behavior |-> "Attempted to change file permissions"],
      [pattern |-> "chown(",   score |-> 20, behavior |-> "Attempted to change file ownership"],
      [pattern |-> "symlink(", score |-> 15, behavior |-> "Attempted to create symbolic links"],
      [pattern |-> "rename(",  score |-> 10, behavior |-> "Attempted to rename files"] }

dangerousCommands ==
    { [pattern |-> "execve(\"sh\"",         score |-> 25, behavior |-> "Attempted to execute dangerous command: sh"],
      [pattern |-> "execve(\"bash\"",       score |-> 25, behavior |-> "Attempted to execute dangerous command: bash"],
      [pattern |-> "execve(\"cmd\"",        score |-> 25, behavior |-> "Attempted to execute dangerous command: cmd"],
      [pattern |-> "execve(\"powershell\"", score |-> 25, behavior |-> "Attempted to execute dangerous command: powershell"],
      [pattern |-> "execve(\"nc\"",         score |-> 25, behavior |-> "Attempted to execute dangerous command: nc"],
      [pattern |-> "execve(\"netcat\"",     score |-> 25, behavior |-> "Attempted to execute dangerous command: netcat"],
      [pattern |-> "execve(\"curl\"",       score |-> 25, behavior |-> "Attempted to execute dangerous command: curl"],
      [pattern |-> "execve(\"wget\"",       score |-> 25, behavior |-> "Attempted to execute dangerous command: wget"],
      [pattern |-> "execve(\"telnet\"",     score |-> 25, behavior |-> "Attempted to execute dangerous command: telnet"] }

sensitiveFiles ==
    { [pattern |-> "open(\"/etc/passwd", score |-> 15, behavior |-> "Attempted to access password file"],
      [pattern |-> "open(\"/etc/shadow", score |-> 25, behavior |-> "Attempted to access shadow password file"],
      [pattern |-> "open(\"/etc/hosts",  score |-> 10, behavior |-> "Attempted to access hosts file"],
      [pattern |-> "open(\"/proc/",      score |-> 15, behavior |-> "Attempted to access process information"],
      [pattern |-> "open(\"/dev/",       score |-> 20, behavior |-> "Attempted to access device files"] }

\* The file operations that count: the pattern occurs, and neither "/tmp/"
\* nor "/var/cache/" occurs anywhere in the output.
FileOpHits(tr) ==
    {a \in dangerousFileOps :
        /\ Contains(tr, a.pattern)
        /\ ~Contains(tr, "/tmp/")
        /\ ~Contains(tr, "/var/cache/")}

ConnectHits(tr) ==
    IF /\ Contains(tr, "connect(")
       /\ ~Contains(tr, "127.0.0.1")
       /\ ~Contains(tr, "localhost")
    THEN {[pattern |-> "connect(", score |-> 20,
           behavior |-> "Attempted to establish external network connection"]}
    ELSE {}

CommandHits(tr) == {a \in dangerousCommands : Contains(tr, a.pattern)}

SensitiveHits(tr) == {a \in sensitiveFiles : Contains(tr, a.pattern)}

\* The BehaviorAnalysisResult computed from the output of the tracer.  The
\* behaviours are kept as a set: the order in which the code appends them
\* follows Go's map iteration and is read by nothing.
InterpretTrace(tr) ==
    LET hits == FileOpHits(tr) \cup ConnectHits(tr) \cup CommandHits(tr)
                    \cup SensitiveHits(tr)
        behaviors == {a.behavior : a \in hits}
        sum == SumScores(hits)
        score == IF behaviors = {} THEN Flt(0) ELSE sum
    IN [Score |-> IF FGt(score, Flt(100)) THEN Flt(100) ELSE score,
        Behaviors |-> behaviors]

-----------------------------------------------------------------------------
(* mlDetect                                                                *)

\* The 5 features: byte length and four occurrence counts.  Of the searched
\* substrings only "eval(", "system(" and "$_GET" are tokens of a content.
extractFeatures(c) ==
    << Flt(ContentLen(c)),
       Flt(Count(c, "eval(") + Count(c, "system(")),
       Flt(0),
       Flt(Count(c, "$_GET")),
       Flt(0) >>

RECURSIVE DotFrom(_, _, _, _)
DotFrom(features, weights, i, score) ==
    IF i > Len(features) THEN score
    ELSE DotFrom(features, weights, i + 1, FAdd(score, FMul(features[i], weights[i])))

\* Model.Predict: err is "count" for a feature-count mismatch, "panic" when
\* the loop indexes past the end of the weights, else "none" with the score.
Predict(m, features) ==
    IF Len(features) # m.FeatureCount
    THEN [err |-> "count", score |-> Flt(0)]
    ELSE IF Len(m.Weights) < Len(features)
    THEN [err |-> "panic", score |-> Flt(0)]
    ELSE LET score == DotFrom(features, m.Weights, 1, Flt(0)) IN
         [err |-> "none",
          score |-> IF FGt(score, Flt(1)) THEN Flt(1)
                    ELSE IF FLt(score, Flt(0)) THEN Flt(0)
                    ELSE score]

\* mlDetect: a nil model is dereferenced by Predict.
mlDetect(m, c) ==
    IF ~m.loaded
    THEN [err |-> "panic", score |-> Flt(0)]
    ELSE LET p == Predict(m, extractFeatures(c)) IN
         [err |-> p.err,
          score |-> IF p.err = "none" THEN FMul(p.score, Flt(100)) ELSE Flt(0)]

-----------------------------------------------------------------------------
(* calculateTotalScore                                                     *)

\* The weights of feature matching and behaviour analysis exchanged.
weights_Swapped == [feature |-> <<3, 10>>, behavior |-> <<1, 2>>, ml |-> <<1, 5>>]

\* Lines 112-116.
weights == [feature |-> <<1, 2>>, behavior |-> <<3, 10>>, ml |-> <<1, 5>>]

\* A blend that divides by the sum of all three weights whether or not the
\* method is enabled.
Blend_AllWeights(r, c) ==
    LET behaviorScore ==
            IF c.behEnabled /\ r.Behaviors = {} THEN Flt(0) ELSE r.BehaviorScore
        mlScore ==
            IF c.mlEnabled /\ FEq(r.FeatureScore, Flt(0)) /\ r.Behaviors = {}
            THEN FMul(r.MLScore, <<1, 10>>)
            ELSE r.MLScore
        s0 == FMul(r.FeatureScore, weights.feature)
        s1 == IF c.behEnabled THEN FAdd(s0, FMul(behaviorScore, weights.behavior)) ELSE s0
        s2 == IF c.mlEnabled THEN FAdd(s1, FMul(mlScore, weights.ml)) ELSE s1
    IN [BehaviorScore |-> behaviorScore, MLScore |-> mlScore,
        TotalScore |-> s2]

\* A blend that counts the behaviour weight only when a behaviour was found.
Blend_SkipsEmptyBehaviour(r, c) ==
    LET counted == c.behEnabled /\ r.Behaviors # {}
        behaviorScore ==
            IF c.behEnabled /\ r.Behaviors = {} THEN Flt(0) ELSE r.BehaviorScore
        mlScore ==
            IF c.mlEnabled /\ FEq(r.FeatureScore, Flt(0)) /\ r.Behaviors = {}
            THEN FMul(r.MLScore, <<1, 10>>)
            ELSE r.MLScore
        s0 == FMul(r.FeatureScore, weights.feature)
        w0 == weights.feature
        s1 == IF counted THEN FAdd(s0, FMul(behaviorScore, weights.behavior)) ELSE s0
        w1 == IF counted THEN FAdd(w0, weights.behavior) ELSE w0
        s2 == IF c.mlEnabled THEN FAdd(s1, FMul(mlScore, weights.ml)) ELSE s1
        w2 == IF c.mlEnabled THEN FAdd(w1, weights.ml) ELSE w1
    IN [BehaviorScore |-> behaviorScore, MLScore |-> mlScore,
        TotalScore |-> FDiv(s2, w2)]

\* A blend whose dampening multiplies by 10 instead of 0.1.
Blend_AmplifiesML(r, c) ==
    LET behaviorScore ==
            IF c.behEnabled /\ r.Behaviors = {} THEN Flt(0) ELSE r.BehaviorScore
        mlScore ==
            IF c.mlEnabled /\ FEq(r.FeatureScore, Flt(0)) /\ r.Behaviors = {}
            THEN FMul(r.MLScore, Flt(10))
            ELSE r.MLScore
        s0 == FMul(r.FeatureScore, weights.feature)
        w0 == weights.feature
        s1 == IF c.behEnabled THEN FAdd(s0, FMul(behaviorScore, weights.behavior)) ELSE s0
        w1 == IF c.behEnabled THEN FAdd(w0, weights.behavior) ELSE w0
        s2 == IF c.mlEnabled THEN FAdd(s1, FMul(mlScore, weights.ml)) ELSE s1
        w2 == IF c.mlEnabled THEN FAdd(w1, weights.ml) ELSE w1
    IN [BehaviorScore |-> behaviorScore, MLScore |-> mlScore,
        TotalScore |-> FDiv(s2, w2)]

\* A blend that never dampens the ML score.
Blend_NoDampening(r, c) ==
    LET behaviorScore ==
            IF c.behEnabled /\ r.Behaviors = {} THEN Flt(0) ELSE r.BehaviorScore
        mlScore == r.MLScore
        s0 == FMul(r.FeatureScore, weights.feature)
        w0 == weights.feature
        s1 == IF c.behEnabled THEN FAdd(s0, FMul(behaviorScore, weights.behavior)) ELSE s0
        w1 == IF c.behEnabled THEN FAdd(w0, weights.behavior) ELSE w0
        s2 == IF c.mlEnabled THEN FAdd(s1, FMul(mlScore, weights.ml)) ELSE s1
        w2 == IF c.mlEnabled THEN FAdd(w1, weights.ml) ELSE w1
    IN [BehaviorScore |-> behaviorScore, MLScore |-> mlScore,
        TotalScore |-> FDiv(s2, w2)]

\* Lines 118-141: the normalised weighted average over the enabled methods,
\* with the behaviour score zeroed when no behaviour was found and the ML
\* score dampened for a file with neither features nor behaviours.
Blend(r, c) ==
    LET behaviorScore ==
            IF c.behEnabled /\ r.Behaviors = {} THEN Flt(0) ELSE r.BehaviorScore
        mlScore ==
            IF c.mlEnabled /\ FEq(r.FeatureScore, Flt(0)) /\ r.Behaviors = {}
            THEN FMul(r.MLScore, <<1, 10>>)
            ELSE r.MLScore
        s0 == FMul(r.FeatureScore, weights.feature)
        w0 == weights.feature
        s1 == IF c.behEnabled THEN FAdd(s0, FMul(behaviorScore, weights.behavior)) ELSE s0
        w1 == IF c.behEnabled THEN FAdd(w0, weights.behavior) ELSE w0
        s2 == IF c.mlEnabled THEN FAdd(s1, FMul(mlScore, weights.ml)) ELSE s1
        w2 == IF c.mlEnabled THEN FAdd(w1, weights.ml) ELSE w1
    IN [BehaviorScore |-> behaviorScore, MLScore |-> mlScore,
        TotalScore |-> FDiv(s2, w2)]

\* A switch whose MEDIUM case always marks the file.
Classify_MediumMarks(total, featureScore) ==
    IF FGe(total, Flt(85)) THEN [RiskLevel |-> "HIGH", IsWebshell |-> TRUE]
    ELSE IF FGe(total, Flt(70)) THEN [RiskLevel |-> "MEDIUM", IsWebshell |-> TRUE]
    ELSE IF FGe(total, Flt(40)) THEN [RiskLevel |-> "LOW", IsWebshell |-> FALSE]
    ELSE [RiskLevel |-> "SAFE", IsWebshell |-> FALSE]

\* Lines 143-157: the switch on the blended score.
Classify(total, featureScore) ==
    IF FGe(total, Flt(85)) THEN [RiskLevel |-> "HIGH", IsWebshell |-> TRUE]
    ELSE IF FGe(total, Flt(70))
    THEN [RiskLevel |-> "MEDIUM", IsWebshell |-> FGt(featureScore, Flt(80))]
    ELSE IF FGe(total, Flt(40)) THEN [RiskLevel |-> "LOW", IsWebshell |-> FALSE]
    ELSE [RiskLevel |-> "SAFE", IsWebshell |-> FALSE]

\* An override that never applies.
HighOverride_Never(v, featureScore) == v

\* Lines 159-163: a feature score above 90 marks the file directly.
HighOverride(v, featureScore) ==
    IF FGt(featureScore, Flt(90))
    THEN [RiskLevel |-> "HIGH", IsWebshell |-> TRUE]
    ELSE v

\* Lines 165-172: neither features nor behaviours forces SAFE and caps the
\* total at 30.
SafeOverride(r) ==
    IF FEq(r.FeatureScore, Flt(0)) /\ r.Behaviors = {}
    THEN [r EXCEPT !.RiskLevel = "SAFE", !.IsWebshell = FALSE,
                   !.TotalScore = IF FGt(r.TotalScore, Flt(30)) THEN Flt(30)
                                  ELSE r.TotalScore]
    ELSE r

\* The result after calculateTotalScore, given the detection enable flags.
calculateTotalScore(r, c) ==
    LET b == Blend(r, c)
        v == HighOverride(Classify(b.TotalScore, r.FeatureScore), r.FeatureScore)
    IN SafeOverride([r EXCEPT !.BehaviorScore = b.BehaviorScore,
                              !.MLScore = b.MLScore,
                              !.TotalScore = b.TotalScore,
                              !.RiskLevel = v.RiskLevel,
                              !.IsWebshell = v.IsWebshell])

-----------------------------------------------------------------------------
(* Detect                                                                  *)

\* The zero value of DetectionResult; RiskLevel "" is the unset string.
EmptyResult ==
    [FeatureScore |-> Flt(0), BehaviorScore |-> Flt(0), MLScore |-> Flt(0),
     MatchedFeatures |-> <<>>, Behaviors |-> {}, TotalScore |-> Flt(0),
     RiskLevel |-> "", IsWebshell |-> FALSE]

Configs == [behEnabled : BOOLEAN, mlEnabled : BOOLEAN, yaraEnabled : BOOLEAN]

\* How behaviorAnalyze can fail: the sandbox cannot be created, the file
\* cannot be written into it, the tracer cannot be run, the deadline kills it.
BehErrors == {"mkdir", "write", "run", "timeout"}

\* The model is read only when ML detection is enabled: with it disabled
\* one model stands for all.
DetectInit ==
    /\ cfg \in Configs
    /\ mlModel \in Models
    /\ (~cfg.mlEnabled => mlModel = NoModel)
    /\ pc = "start"
    /\ content = <<>>
    /\ trace = {}
    /\ behErr = "none"
    /\ result = EmptyResult
    /\ startErr = "pending"
    /\ sandbox = FALSE

\* os.ReadFile: the file cannot be read, or its content is returned.
ReadFile ==
    /\ pc = "start"
    /\ \/ /\ pc' = "error"
          /\ UNCHANGED content
       \/ /\ content' \in Contents
          /\ pc' = "read"
    /\ UNCHANGED <<cfg, mlModel, trace, behErr, result, startErr, sandbox, schedVars, timeVars>>

\* featureMatch, with n the number of rule matches the rule engine reports.
FeatureMatchStep ==
    /\ pc = "read"
    /\ \E n \in 0..MaxYaraMatches :
          /\ (~cfg.yaraEnabled => n = 0)
          /\ LET f == featureMatch(content, cfg.yaraEnabled, n) IN
             IF f.err
             THEN /\ pc' = "error"
                  /\ UNCHANGED result
             ELSE /\ pc' = "featured"
                  /\ result' = [result EXCEPT !.FeatureScore = f.Score,
                                              !.MatchedFeatures = f.Matches]
    /\ UNCHANGED <<cfg, mlModel, content, trace, behErr, startErr, sandbox, schedVars, timeVars>>

\* A scratch directory that is removed only when the trace was interpreted.
SandboxAfterReturn_SuccessOnly(err) == err # "none"

\* defer os.RemoveAll(sandboxDir): whether the scratch directory exists once
\* behaviorAnalyze has returned with err.
SandboxAfterReturn(err) == FALSE

\* behaviorAnalyze up to os.MkdirTemp: it fails, or the scratch directory
\* exists.
MkdirTempStep ==
    /\ pc = "featured"
    /\ cfg.behEnabled
    /\ \/ /\ behErr' = "mkdir"
          /\ pc' = "behaved"
          /\ UNCHANGED sandbox
       \/ /\ sandbox' = TRUE
          /\ pc' = "sandboxed"
          /\ UNCHANGED behErr
    /\ UNCHANGED <<cfg, mlModel, content, trace, result, startErr, schedVars, timeVars>>

\* The rest of behaviorAnalyze when enabled: it fails (a warning, the result
\* keeps its zero values), or the output of the tracer is interpreted; the
\* deferred removal runs as it returns.
BehaviorStep ==
    /\ \/ pc = "featured" /\ ~cfg.behEnabled
       \/ pc = "sandboxed"
    /\ pc' = "behaved"
    /\ IF ~cfg.behEnabled
       THEN UNCHANGED <<trace, behErr, result, sandbox>>
       ELSE /\ \/ /\ behErr' \in BehErrors \ {"mkdir"}
                  /\ UNCHANGED <<trace, result>>
               \/ /\ trace' \in SUBSET TraceLines
                  /\ behErr' = "none"
                  /\ LET b == InterpretTrace(trace') IN
                     result' = [result EXCEPT !.BehaviorScore = b.Score,
                                              !.Behaviors = b.Behaviors]
            /\ sandbox' = SandboxAfterReturn(behErr')
    /\ UNCHANGED <<cfg, mlModel, content, startErr, schedVars, timeVars>>

\* mlDetect when enabled: a failure is a warning, a panic ends the call.
MLStep ==
    /\ pc = "behaved"
    /\ IF ~cfg.mlEnabled
       THEN /\ pc' = "scored"
            /\ UNCHANGED result
       ELSE LET m == mlDetect(mlModel, content) IN
            /\ pc' = IF m.err = "panic" THEN "panic" ELSE "scored"
            /\ result' = IF m.err = "none"
                         THEN [result EXCEPT !.MLScore = m.score]
                         ELSE result
    /\ UNCHANGED <<cfg, mlModel, content, trace, behErr, startErr, sandbox, schedVars, timeVars>>

\* calculateTotalScore, after which Detect returns the result.
CalculateStep ==
    /\ pc = "scored"
    /\ pc' = "done"
    /\ result' = calculateTotalScore(result, cfg)
    /\ UNCHANGED <<cfg, mlModel, content, trace, behErr, startErr, sandbox, schedVars, timeVars>>

-----------------------------------------------------------------------------
(* RealtimeScanner and ScheduledScanner                                    *)

MaxConcurrencyMax == 2
MaxEvents == 3
MaxTicks == 1
MaxFileSize == 10

\* Scan.FileTypes of the configuration.
FileTypes == {".php"}

\* filepath.Ext, on the file names of the model.
Ext(name) ==
    IF name \in {"a.php", "b.php", "big.php"} THEN ".php" ELSE ".txt"

\* The events the watcher can deliver.
Events ==
    {[Name |-> "a.php", Op |-> "create"], [Name |-> "a.php", Op |-> "write"],
     [Name |-> "b.php", Op |-> "write"], [Name |-> "c.txt", Op |-> "create"],
     [Name |-> "a.php", Op |-> "remove"]}

NoEvent == [Name |-> "", Op |-> ""]

\* The files filepath.Walk visits under the configured directories, in
\* order.
WalkFiles ==
    <<[Name |-> "a.php", Size |-> 4, Root |-> 1],
      [Name |-> "c.txt", Size |-> 4, Root |-> 1],
      [Name |-> "big.php", Size |-> MaxFileSize + 1, Root |-> 2],
      [Name |-> "b.php", Size |-> 4, Root |-> 2]>>

NoPass == [spawned |-> {}, unreadable |-> {}]

SchedConfigs ==
    [kind : {"realtime", "scheduled"}, Enabled : BOOLEAN,
     MaxConcurrency : 0..MaxConcurrencyMax, StartTimeValid : BOOLEAN]

\* The detection variables of a run that only schedules scans.
DetectIdle ==
    /\ cfg = [behEnabled |-> FALSE, mlEnabled |-> FALSE, yaraEnabled |-> FALSE]
    /\ mlModel = NoModel
    /\ pc = "idle"
    /\ content = <<>>
    /\ trace = {}
    /\ behErr = "none"
    /\ result = EmptyResult
    /\ startErr = "pending"
    /\ sandbox = FALSE

\* A scheduler as its constructor leaves it.
NewScanner(c) ==
    /\ scfg = c
    /\ isRunning = FALSE
    /\ workerPool = 0
    /\ waitGroup = 0
    /\ tasks = <<>>
    /\ caller = "idle"
    /\ stopped = FALSE
    /\ lastErr = "nil"
    /\ watcher = IF c.kind = "realtime" THEN "open" ELSE "none"
    /\ loop = "none"
    /\ event = NoEvent
    /\ nEvents = 0
    /\ ticker = "nil"
    /\ tick = FALSE
    /\ nTicks = 0
    /\ walkPos = 0
    /\ pass = NoPass

\* The timing variables of a run that does not follow the clock.
TimeIdle ==
    /\ tcfg = [now |-> 0, StartTime |-> 0, shift |-> 0, Interval |-> 0]
    /\ clock = 0
    /\ wakeAt = 0
    /\ tickAt = 0
    /\ scans = <<>>

SchedInit ==
    /\ DetectIdle
    /\ TimeIdle
    /\ \E c \in SchedConfigs :
          /\ (c.kind = "realtime" => c.StartTimeValid)
          /\ NewScanner(c)

\* A scan goroutine that starts scanning without sending on the channel.
Spawn_NoAcquire(path) ==
    /\ waitGroup' = waitGroup + 1
    /\ tasks' = Append(tasks, [path |-> path, pc |-> "scan"])

\* The scan goroutine of both schedulers: waitGroup.Add(1); go func(path).
\* The goroutine starts at its send on the channel.
Spawn(path) ==
    /\ waitGroup' = waitGroup + 1
    /\ tasks' = Append(tasks, [path |-> path, pc |-> "acquire"])

\* A send that also proceeds on a full channel.
CanSend_FullToo(len, cap) == len <= cap

\* A send on a channel of capacity cap holding len tokens proceeds when the
\* buffer has room; with cap = 0 it needs a receiver, and the only receive
\* is the release of a goroutine that has sent.
CanSend(len, cap) == len < cap

\* s.workerPool <- struct{}{}
TaskAcquire(i) ==
    /\ i \in DOMAIN tasks
    /\ tasks[i].pc = "acquire"
    /\ CanSend(workerPool, scfg.MaxConcurrency)
    /\ workerPool' = workerPool + 1
    /\ tasks' = [tasks EXCEPT ![i].pc = "scan"]
    /\ UNCHANGED <<timeVars, detectVars, scfg, isRunning, waitGroup, caller, stopped, lastErr,
                   watcher, loop, event, nEvents, ticker, tick, nTicks,
                   walkPos, pass>>

\* s.Scan returns (a result, an error or the deadline), then the deferred
\* <-s.workerPool.
TaskRelease(i) ==
    /\ i \in DOMAIN tasks
    /\ tasks[i].pc = "scan"
    /\ workerPool' = workerPool - 1
    /\ tasks' = [tasks EXCEPT ![i].pc = "released"]
    /\ UNCHANGED <<timeVars, detectVars, scfg, isRunning, waitGroup, caller, stopped, lastErr,
                   watcher, loop, event, nEvents, ticker, tick, nTicks,
                   walkPos, pass>>

\* The deferred s.waitGroup.Done().
TaskDone(i) ==
    /\ i \in DOMAIN tasks
    /\ tasks[i].pc = "released"
    /\ waitGroup' = waitGroup - 1
    /\ tasks' = [tasks EXCEPT ![i].pc = "finished"]
    /\ UNCHANGED <<timeVars, detectVars, scfg, isRunning, workerPool, caller, stopped, lastErr,
                   watcher, loop, event, nEvents, ticker, tick, nTicks,
                   walkPos, pass>>

\* A check of isRunning that never finds the scheduler running.
AlreadyRunning_Never == FALSE

\* if s.isRunning { return fmt.Errorf("scanner is already running") }
AlreadyRunning == isRunning

\* Start. The model follows the one goroutine a scheduler launches: a
\* Start that would launch a second one is not taken.
Start ==
    /\ caller = "idle"
    /\ IF ~scfg.Enabled
       THEN /\ lastErr' = "disabled"
            /\ UNCHANGED <<isRunning, stopped, loop, ticker, tick>>
       ELSE IF AlreadyRunning
       THEN /\ lastErr' = "already running"
            /\ UNCHANGED <<isRunning, stopped, loop, ticker, tick>>
       ELSE /\ isRunning' = TRUE
            /\ stopped' = FALSE
            /\ IF scfg.kind = "realtime"
               THEN \/ /\ lastErr' = "walk"
                       /\ UNCHANGED <<loop, ticker, tick>>
                    \/ /\ watcher = "open"
                       /\ loop = "none"
                       /\ lastErr' = "nil"
                       /\ loop' = "select"
                       /\ UNCHANGED <<ticker, tick>>
               ELSE IF ~scfg.StartTimeValid
               THEN /\ lastErr' = "start time"
                    /\ UNCHANGED <<loop, ticker, tick>>
               ELSE /\ loop = "none"
                    /\ lastErr' = "nil"
                    /\ ticker' = "running"
                    /\ tick' = FALSE
                    /\ loop' = "sleep"
    /\ UNCHANGED <<timeVars, detectVars, scfg, workerPool, waitGroup, tasks, caller, watcher, event,
                   nEvents, nTicks, walkPos, pass>>

\* Stop up to waitGroup.Wait(): the early return, or isRunning = false and,
\* in the scheduled scanner, ticker.Stop(). Whether a tick already in the
\* channel survives ticker.Stop() depends on the Go release.
StopBegin ==
    /\ caller = "idle"
    /\ IF ~isRunning
       THEN /\ lastErr' = "nil"
            /\ UNCHANGED <<isRunning, caller, ticker, tick>>
       ELSE /\ isRunning' = FALSE
            /\ caller' = "stop_wait"
            /\ ticker' = IF ticker = "running" THEN "stopped" ELSE ticker
            /\ tick' \in {tick, FALSE}
            /\ UNCHANGED lastErr
    /\ UNCHANGED <<timeVars, detectVars, scfg, workerPool, waitGroup, tasks, stopped, watcher, loop,
                   event, nEvents, nTicks, walkPos, pass>>

\* waitGroup.Wait() returns; the scheduled Stop then returns nil.
StopWait ==
    /\ caller = "stop_wait"
    /\ waitGroup = 0
    /\ IF scfg.kind = "realtime"
       THEN /\ caller' = "stop_close"
            /\ UNCHANGED <<stopped, lastErr>>
       ELSE /\ caller' = "idle"
            /\ stopped' = TRUE
            /\ lastErr' = "nil"
    /\ UNCHANGED <<timeVars, detectVars, scfg, isRunning, workerPool, waitGroup, tasks, watcher,
                   loop, event, nEvents, ticker, tick, nTicks, walkPos, pass>>

\* return s.watcher.Close()
StopClose ==
    /\ caller = "stop_close"
    /\ watcher' = "closed"
    /\ caller' = "idle"
    /\ stopped' = TRUE
    /\ lastErr' = "nil"
    /\ UNCHANGED <<timeVars, detectVars, scfg, isRunning, workerPool, waitGroup, tasks, loop, event,
                   nEvents, ticker, tick, nTicks, walkPos, pass>>

\* watch: an event arrives on watcher.Events.
WatchReceive ==
    /\ loop = "select"
    /\ watcher = "open"
    /\ nEvents < MaxEvents
    /\ event' \in Events
    /\ nEvents' = nEvents + 1
    /\ loop' = "dispatch"
    /\ UNCHANGED <<timeVars, detectVars, scfg, isRunning, workerPool, waitGroup, tasks, caller,
                   stopped, lastErr, watcher, ticker, tick, nTicks, walkPos, pass>>

\* watch: the closed channel ends the loop.
WatchClosed ==
    /\ loop = "select"
    /\ watcher = "closed"
    /\ loop' = "returned"
    /\ UNCHANGED <<timeVars, detectVars, scfg, isRunning, workerPool, waitGroup, tasks, caller,
                   stopped, lastErr, watcher, event, nEvents, ticker, tick,
                   nTicks, walkPos, pass>>

\* An extension check that lets every file through.
ValidExt_Any(name) == TRUE

\* validExt of watch: the extension of the file is one of Scan.FileTypes.
ValidExt(name) == Ext(name) \in FileTypes

\* watch: the operation and extension filters, then the spawn.
WatchDispatch ==
    /\ loop = "dispatch"
    /\ loop' = "select"
    /\ event' = NoEvent
    /\ IF event.Op \in {"create", "write"} /\ ValidExt(event.Name)
       THEN Spawn(event.Name)
       ELSE UNCHANGED <<waitGroup, tasks>>
    /\ UNCHANGED <<timeVars, detectVars, scfg, isRunning, workerPool, caller, stopped, lastErr,
                   watcher, nEvents, ticker, tick, nTicks, walkPos, pass>>

\* The ticker goroutine: time.Sleep(delay) ends and scanAll() begins.
Wake ==
    /\ loop = "sleep"
    /\ loop' = "walk"
    /\ walkPos' = 1
    /\ pass' = NoPass
    /\ UNCHANGED <<timeVars, detectVars, scfg, isRunning, workerPool, waitGroup, tasks, caller,
                   stopped, lastErr, watcher, event, nEvents, ticker, tick,
                   nTicks>>

\* The file the watched-extension and size checks of the walk let through.
Qualifies(f) == f.Size <= MaxFileSize /\ Ext(f.Name) \in FileTypes

\* Where the walk goes on after entry k: the next entry, or, when the
\* callback returned the entry's error, the first entry of the next
\* configured directory (filepath.Walk ends with that error and scanAll
\* moves on); 0 when the pass is over.
WalkNext(k, failed) ==
    LET later == {j \in DOMAIN WalkFiles :
                     /\ j > k
                     /\ failed => WalkFiles[j].Root # WalkFiles[k].Root}
    IN IF later = {} THEN 0
       ELSE CHOOSE j \in later : \A i \in later : j <= i

\* scanDirectory: the walk visits one entry, which can be read or not.
WalkStep ==
    /\ loop = "walk"
    /\ \E failed \in BOOLEAN :
          LET f == WalkFiles[walkPos]
              next == WalkNext(walkPos, failed)
          IN /\ IF ~failed /\ Qualifies(f)
                THEN /\ Spawn(f.Name)
                     /\ pass' = [pass EXCEPT !.spawned = @ \cup {walkPos}]
                ELSE /\ UNCHANGED <<waitGroup, tasks>>
                     /\ pass' = IF failed
                                THEN [pass EXCEPT !.unreadable = @ \cup {walkPos}]
                                ELSE pass
             /\ IF next = 0
                THEN loop' = "range" /\ walkPos' = 0
                ELSE loop' = "walk" /\ walkPos' = next
    /\ UNCHANGED <<timeVars, detectVars, scfg, isRunning, workerPool, caller, stopped, lastErr,
                   watcher, event, nEvents, ticker, tick, nTicks>>

\* The running ticker fires into its channel.
Tick ==
    /\ ticker = "running"
    /\ ~tick
    /\ nTicks < MaxTicks
    /\ tick' = TRUE
    /\ nTicks' = nTicks + 1
    /\ UNCHANGED <<timeVars, detectVars, scfg, isRunning, workerPool, waitGroup, tasks, caller,
                   stopped, lastErr, watcher, loop, event, nEvents, ticker,
                   walkPos, pass>>

\* for range s.ticker.C: a tick is received, isRunning is read.
RangeReceive ==
    /\ loop = "range"
    /\ tick
    /\ tick' = FALSE
    /\ IF ~isRunning
       THEN loop' = "returned" /\ UNCHANGED <<walkPos, pass>>
       ELSE loop' = "walk" /\ walkPos' = 1 /\ pass' = NoPass
    /\ UNCHANGED <<timeVars, detectVars, scfg, isRunning, workerPool, waitGroup, tasks, caller,
                   stopped, lastErr, watcher, event, nEvents, ticker, nTicks>>

SchedNext ==
    \/ Start
    \/ StopBegin
    \/ StopWait
    \/ StopClose
    \/ WatchReceive
    \/ WatchClosed
    \/ WatchDispatch
    \/ Wake
    \/ WalkStep
    \/ Tick
    \/ RangeReceive
    \/ \E i \in DOMAIN tasks : TaskAcquire(i)
    \/ \E i \in DOMAIN tasks : TaskRelease(i)
    \/ \E i \in DOMAIN tasks : TaskDone(i)

SchedSpec == SchedInit /\ [][SchedNext]_vars

\* The most scan goroutines one run of the model spawns.
MaxTasks ==
    LET perWalk == Cardinality({k \in DOMAIN WalkFiles :
                       Qualifies(WalkFiles[k])})
        walks == perWalk * (MaxTicks + 1)
    IN IF MaxEvents > walks THEN MaxEvents ELSE walks

\* Every goroutine that can take a step eventually takes one.
SchedFair ==
    /\ SchedSpec
    /\ \A i \in 1..MaxTasks :
          /\ WF_vars(TaskAcquire(i))
          /\ WF_vars(TaskRelease(i))
          /\ WF_vars(TaskDone(i))
    /\ WF_vars(WatchDispatch)
    /\ WF_vars(WatchClosed)
    /\ WF_vars(Wake)
    /\ WF_vars(WalkStep)
    /\ WF_vars(RangeReceive)
    /\ WF_vars(StopWait)
    /\ WF_vars(StopClose)

\* The scheduler variables of a run that only detects.
SchedIdle ==
    NewScanner([kind |-> "realtime", Enabled |-> FALSE, MaxConcurrency |-> 0,
                StartTimeValid |-> TRUE])

-----------------------------------------------------------------------------
(* The schedule of the ScheduledScanner, in time                           *)

\* 24 * time.Hour, in the half hours the model counts time in.
UnitsPerDay == 48

MaxScans == 3

\* One hour: what a daylight-saving change adds to or takes from a day.
DstHour == UnitsPerDay \div 24

\* The wall-clock time, 02:00, at which the local offset changes.
ChangeAt == 2 * DstHour

\* By how much today is longer than 24 hours in the scheduler's location.
Shifts == {-DstHour, 0, DstHour}

\* Schedule.Interval values: twelve hours, one day.
Intervals == {UnitsPerDay \div 2, UnitsPerDay}

\* time.Date(..., now.Location()): the time elapsed since today's midnight
\* at wall-clock reading w.
SinceMidnight(w, shift) == IF w < ChangeAt THEN w ELSE w + shift

\* The wall-clock readings that exist today (the hour a forward change
\* skips does not).
WallTimes(shift) ==
    {w \in 0..(UnitsPerDay - 1) :
        ~(shift < 0 /\ w >= ChangeAt /\ w < ChangeAt + DstHour)}

\* Start: today at start_time, moved 24 hours on when before now; the delay
\* is its distance from now.
ComputeDelay(now, startTime, shift) ==
    LET today == SinceMidnight(startTime, shift)
        n == SinceMidnight(now, shift)
    IN IF today < n THEN (today + UnitsPerDay) - n ELSE today - n

TimeConfigs ==
    {c \in [now : 0..(UnitsPerDay - 1), StartTime : 0..(UnitsPerDay - 1),
            shift : Shifts, Interval : Intervals] :
        c.now \in WallTimes(c.shift) /\ c.StartTime \in WallTimes(c.shift)}

TimedInit ==
    /\ DetectIdle
    /\ NewScanner([kind |-> "scheduled", Enabled |-> TRUE, MaxConcurrency |-> 1,
                   StartTimeValid |-> TRUE])
    /\ tcfg \in TimeConfigs
    /\ clock = 0
    /\ wakeAt = 0
    /\ tickAt = 0
    /\ scans = <<>>

\* Start of the scheduled scanner: the delay, the ticker, the goroutine.
TimedStart ==
    /\ loop = "none"
    /\ ~isRunning
    /\ isRunning' = TRUE
    /\ lastErr' = "nil"
    /\ wakeAt' = clock + ComputeDelay(tcfg.now, tcfg.StartTime, tcfg.shift)
    /\ ticker' = "running"
    /\ tickAt' = clock + tcfg.Interval
    /\ loop' = "sleep"
    /\ UNCHANGED <<detectVars, scfg, workerPool, waitGroup, tasks, caller,
                   stopped, watcher, event, nEvents, tick, nTicks, walkPos,
                   pass, tcfg, clock, scans>>

\* The ticker fires when its time is the next to come; a tick the channel
\* has no room for is dropped. A goroutine waiting in the range takes a
\* waiting tick before time moves on.
TimedTick ==
    /\ ticker = "running"
    /\ loop \in {"sleep", "range"}
    /\ loop = "sleep" => tickAt <= wakeAt
    /\ loop = "range" => ~tick /\ Len(scans) < MaxScans
    /\ clock' = tickAt
    /\ tick' = TRUE
    /\ tickAt' = tickAt + tcfg.Interval
    /\ UNCHANGED <<detectVars, scfg, isRunning, workerPool, waitGroup, tasks,
                   caller, stopped, lastErr, watcher, loop, event, nEvents,
                   ticker, nTicks, walkPos, pass, tcfg, wakeAt, scans>>

\* time.Sleep(delay) ends and the initial scanAll() begins.
TimedWake ==
    /\ loop = "sleep"
    /\ wakeAt <= tickAt
    /\ clock' = wakeAt
    /\ scans' = <<wakeAt>>
    /\ loop' = "range"
    /\ UNCHANGED <<detectVars, scfg, isRunning, workerPool, waitGroup, tasks,
                   caller, stopped, lastErr, watcher, event, nEvents, ticker,
                   tick, nTicks, walkPos, pass, tcfg, wakeAt, tickAt>>

\* for range s.ticker.C: a tick is received and scanAll() begins.
TimedRangeReceive ==
    /\ loop = "range"
    /\ tick
    /\ isRunning
    /\ tick' = FALSE
    /\ scans' = Append(scans, clock)
    /\ UNCHANGED <<detectVars, scfg, isRunning, workerPool, waitGroup, tasks,
                   caller, stopped, lastErr, watcher, loop, event, nEvents,
                   ticker, nTicks, walkPos, pass, tcfg, clock, wakeAt, tickAt>>

TimedNext ==
    \/ TimedStart
    \/ TimedTick
    \/ TimedWake
    \/ TimedRangeReceive

TimedSpec == TimedInit /\ [][TimedNext]_vars

\* ManualScanner.Start after its Detect call: the error it returns.
ManualStartError(p, r) ==
    IF p = "error" THEN "scan failed" ELSE "nil"

\* ManualScanner.Start returns to handleManualScan. It calls Detect itself,
\* not BaseScanner.Scan; a panic in Detect ends the process instead.
ManualStartReturn ==
    /\ pc \in {"done", "error"}
    /\ startErr = "pending"
    /\ startErr' = ManualStartError(pc, result)
    /\ UNCHANGED <<cfg, mlModel, pc, content, trace, behErr, result, sandbox,
                   schedVars, timeVars>>

Init == DetectInit /\ SchedIdle /\ TimeIdle

Next ==
    \/ ReadFile
    \/ FeatureMatchStep
    \/ MkdirTempStep
    \/ BehaviorStep
    \/ MLStep
    \/ CalculateStep
    \/ ManualStartReturn

Spec == Init /\ [][Next]_vars

-----------------------------------------------------------------------------
(* Properties of the detection engine                                      *)

Done == pc = "done"

NoFindings == FEq(result.FeatureScore, Flt(0)) /\ result.Behaviors = {}

InRange(x) == FGe(x, Flt(0)) /\ FLe(x, Flt(100))

\* C1: a Detect run with feature score 0 and no behaviours returns SAFE,
\* IsWebshell = false and a TotalScore of at most 30, under every
\* combination of the enable flags and every ML score.
C1_CleanFileIsSafe ==
    (Done /\ NoFindings) =>
        /\ result.RiskLevel = "SAFE"
        /\ result.IsWebshell = FALSE
        /\ FLe(result.TotalScore, Flt(30))

\* C2: a Detect run with a feature score above 90 returns HIGH and
\* IsWebshell = true, whatever the other scores and the blended total are.
C2_HighFeatureScoreIsHigh ==
    (Done /\ FGt(result.FeatureScore, Flt(90))) =>
        /\ result.RiskLevel = "HIGH"
        /\ result.IsWebshell = TRUE

\* C2 witness: the override decided: the blended total alone is below the
\* HIGH threshold.
C2_Witness ==
    /\ Done
    /\ FGt(result.FeatureScore, Flt(90))
    /\ FLt(result.TotalScore, Flt(85))
    /\ result.RiskLevel = "HIGH"

\* C3: when neither override applies, RiskLevel and IsWebshell are the
\* threshold classification of TotalScore: >= 85 HIGH/true, >= 70 MEDIUM
\* with IsWebshell = (feature score > 80), >= 40 LOW/false, below 40
\* SAFE/false.
C3_ThresholdClassification ==
    (Done /\ ~FGt(result.FeatureScore, Flt(90)) /\ ~NoFindings) =>
        LET t == result.TotalScore IN
        /\ FGe(t, Flt(85)) =>
              result.RiskLevel = "HIGH" /\ result.IsWebshell = TRUE
        /\ (FLt(t, Flt(85)) /\ FGe(t, Flt(70))) =>
              /\ result.RiskLevel = "MEDIUM"
              /\ result.IsWebshell = FGt(result.FeatureScore, Flt(80))
        /\ (FLt(t, Flt(70)) /\ FGe(t, Flt(40))) =>
              result.RiskLevel = "LOW" /\ result.IsWebshell = FALSE
        /\ FLt(t, Flt(40)) =>
              result.RiskLevel = "SAFE" /\ result.IsWebshell = FALSE

\* C3 witness: a MEDIUM result that no override touched.
C3_Witness ==
    /\ Done
    /\ ~FGt(result.FeatureScore, Flt(90))
    /\ ~NoFindings
    /\ result.RiskLevel = "MEDIUM"

\* The weighted average of the enabled methods' scores, from the result.
EnabledAverage ==
    LET num == FAdd(FMul(result.FeatureScore, <<1, 2>>),
               FAdd(IF cfg.behEnabled THEN FMul(result.BehaviorScore, <<3, 10>>) ELSE Flt(0),
                    IF cfg.mlEnabled THEN FMul(result.MLScore, <<1, 5>>) ELSE Flt(0)))
        den == (5 + (IF cfg.behEnabled THEN 3 ELSE 0)
                  + (IF cfg.mlEnabled THEN 2 ELSE 0))
    IN FMul(num, <<10, den>>)

\* C4: TotalScore, before the cap of the SAFE override, is the weighted
\* average of the enabled methods' scores (feature 0.5, behaviour 0.3, ML
\* 0.2; a disabled method counts in neither the sum nor the weights), and
\* for sub-scores in [0,100] it lies in [0,100].
C4_WeightedAverageOfEnabled ==
    Done =>
        /\ result.TotalScore =
              IF NoFindings /\ FGt(EnabledAverage, Flt(30)) THEN Flt(30)
              ELSE EnabledAverage
        /\ (InRange(result.FeatureScore) /\ InRange(result.BehaviorScore)
               /\ InRange(result.MLScore)) => InRange(result.TotalScore)

\* C4 witness: behaviour analysis disabled, ML enabled, both remaining
\* scores positive.
C4_Witness ==
    /\ Done
    /\ ~cfg.behEnabled
    /\ cfg.mlEnabled
    /\ FGt(result.FeatureScore, Flt(0))
    /\ FGt(result.MLScore, Flt(0))
    /\ FLt(result.MLScore, Flt(100))

\* C5: in every result Detect returns, FeatureScore, BehaviorScore and
\* MLScore each lie in [0,100].
C5_SubScoresInRange ==
    Done =>
        /\ InRange(result.FeatureScore)
        /\ InRange(result.BehaviorScore)
        /\ InRange(result.MLScore)

-----------------------------------------------------------------------------
(* Properties of the schedulers                                            *)

\* A spawned scan goroutine that has not yet called waitGroup.Done().
InFlight(i) == i \in DOMAIN tasks /\ tasks[i].pc # "finished"

NoTaskInFlight == \A i \in DOMAIN tasks : ~InFlight(i)

\* The goroutines between their acquire and their release.
Holding == {i \in DOMAIN tasks : tasks[i].pc = "scan"}

\* C6: in a Realtime or Scheduled scheduler whose worker pool has capacity
\* K, at every instant at most K spawned scan tasks hold a slot, under any
\* interleaving of the N > K tasks.
C6_AtMostKScansExecute ==
    /\ Cardinality(Holding) <= scfg.MaxConcurrency
    /\ workerPool = Cardinality(Holding)

\* C6 witness: a full pool of K >= 1 executing scans with a further task
\* waiting for a slot.
C6_Witness ==
    /\ scfg.MaxConcurrency >= 1
    /\ Cardinality(Holding) = scfg.MaxConcurrency
    /\ \E i \in DOMAIN tasks : tasks[i].pc = "acquire"

\* C7: for every pool capacity K the configuration can supply, with K
\* below the number N of spawned tasks and every scan terminating, each
\* spawned task eventually acquires a slot, completes and releases it.
C7_AllTasksComplete ==
    \A i \in 1..MaxTasks :
        [](( /\ i \in DOMAIN tasks
             /\ scfg.MaxConcurrency < Len(tasks) )
           => <>(i \in DOMAIN tasks /\ tasks[i].pc \in {"released", "finished"}))

\* C8: once Stop of a running Realtime scheduler has returned, no scan
\* task of that scheduler is in flight: none was left and none is spawned
\* afterwards.
C8_RealtimeStopDrains ==
    (scfg.kind = "realtime" /\ stopped) => NoTaskInFlight

\* C9: once Stop of a running Scheduled scheduler has returned, no scan
\* task of that scheduler is in flight and no full-tree scan begins.
C9_ScheduledStopDrains ==
    [][scfg.kind = "scheduled" =>
          /\ stopped' => NoTaskInFlight'
          /\ stopped => ~(loop # "walk" /\ loop' = "walk")]_vars

\* C10: within one scheduler instance, at no instant are two scan tasks in
\* flight for the same file path.
C10_NoDoubleScan ==
    \A i, j \in DOMAIN tasks :
        (i # j /\ InFlight(i) /\ InFlight(j)) => tasks[i].path # tasks[j].path

\* The goroutine Start launched has returned, or none was launched.
DispatchEnded == loop \in {"none", "returned"}

\* C11: after Stop has been called on a Realtime or Scheduled scheduler,
\* its dispatch task (the watch loop, the timer loop) eventually terminates,
\* and so does every scan task it spawned.
C11_NoTaskLeaked ==
    [](caller = "stop_wait" => <>(DispatchEnded /\ NoTaskInFlight))

\* C12: Start on a Running scheduler returns an error, leaves it Running and
\* starts no second dispatch task; Start with the mode disabled returns an
\* error and leaves it Idle; Stop on an Idle scheduler returns no error and
\* changes nothing.
C12_MisusePreservesState ==
    [][/\ (Start /\ scfg.Enabled /\ isRunning) =>
             /\ lastErr' = "already running"
             /\ isRunning'
             /\ UNCHANGED <<loop, tasks, waitGroup, workerPool, ticker, tick,
                            watcher, stopped>>
       /\ (Start /\ ~scfg.Enabled) =>
             /\ lastErr' = "disabled"
             /\ ~isRunning /\ ~isRunning'
             /\ UNCHANGED <<loop, tasks, waitGroup, workerPool, ticker, tick,
                            watcher, stopped>>
       /\ (StopBegin /\ ~isRunning) =>
             /\ lastErr' = "nil"
             /\ ~isRunning'
             /\ UNCHANGED <<caller, loop, tasks, waitGroup, workerPool, ticker,
                            tick, watcher, stopped>>]_vars

\* C12 witness: a scheduler with its dispatch task alive has refused a
\* second Start.
C12_Witness ==
    /\ lastErr = "already running"
    /\ isRunning
    /\ loop \notin {"none", "returned"}

-----------------------------------------------------------------------------
(* Properties of the manual scan and of degraded methods                   *)

\* C13: a manual scan whose result has IsWebshell = true ends with an error
\* returned by the manual scanner's Start, distinct from the error of a scan
\* that could not be performed; a manual scan of a file classified
\* not-webshell ends without error.
C13_ManualScanReportsWebshell ==
    (pc = "done" /\ startErr # "pending") =>
        IF result.IsWebshell
        THEN startErr \notin {"nil", "scan failed"}
        ELSE startErr = "nil"

\* C14: when behaviour analysis is enabled and fails (the sandbox cannot be
\* created, the tracer fails, the deadline passes), Detect does not fail: it
\* returns a result with BehaviorScore = 0 and no behaviours, scored from the
\* remaining methods.
C14_BehaviorFailureDegrades ==
    (cfg.behEnabled /\ behErr # "none") =>
        /\ pc \notin {"error", "panic"}
        /\ Done => /\ FEq(result.BehaviorScore, Flt(0))
                   /\ result.Behaviors = {}

\* The ML sub-call cannot produce a score: no model was loaded, or the model
\* declares another feature count than the 5 extracted.
MLCannotScore == ~mlModel.loaded \/ mlModel.FeatureCount # 5

\* C15: when ML detection is enabled and the ML sub-call cannot produce a
\* score, Detect still returns a result, with MLScore = 0.
C15_MLFailureDegrades ==
    (cfg.mlEnabled /\ MLCannotScore /\ pc \notin {"start", "read", "featured", "error"}) =>
        /\ pc # "panic"
        /\ Done => FEq(result.MLScore, Flt(0))

C17_WalkErrorDoesNotStopPass ==
    (scfg.kind = "scheduled" /\ loop = "range") =>
        \A k \in DOMAIN WalkFiles :
            (Qualifies(WalkFiles[k]) /\ k \notin pass.unreadable)
                => k \in pass.spawned

-----------------------------------------------------------------------------
(* Properties of the schedule                                              *)

\* C18: full-tree scans recur at the configured interval measured from the
\* initial scan: the first recurring scan begins one interval after the
\* initial scan began and never sooner, whatever the initial delay is
\* relative to the interval.
C18_FirstRecurrenceOneIntervalLater ==
    Len(scans) >= 2 => scans[2] - scans[1] = tcfg.Interval

\* The time from wall-clock reading now to the next occurrence of
\* wall-clock reading startTime, today or else tomorrow.
NextOccurrence(now, startTime, shift) ==
    IF startTime >= now
    THEN SinceMidnight(startTime, shift) - SinceMidnight(now, shift)
    ELSE ((UnitsPerDay + shift) - SinceMidnight(now, shift)) + startTime

\* C19: the delay before the first full-tree scan is the time from now to
\* the next occurrence of the configured daily start_time (today, or the
\* same time tomorrow when today's is past); it is never negative and never
\* more than 24 hours.
C19_DelayToNextStartTime ==
    loop # "none" =>
        /\ wakeAt = NextOccurrence(tcfg.now, tcfg.StartTime, tcfg.shift)
        /\ wakeAt >= 0
        /\ wakeAt <= UnitsPerDay

\* C20: when the Realtime dispatch loop has received an event for a file
\* whose extension is not watched, it spawns no scan task and leaves the
\* number of held worker-pool slots and the completion counter unchanged.
C20_UnwatchedExtensionSpawnsNothing ==
    [][(WatchDispatch /\ Ext(event.Name) \notin FileTypes) =>
          UNCHANGED <<tasks, workerPool, waitGroup>>]_vars

\* C20 witness: the loop has received a create event for a file with an
\* unwatched extension while a scan holds a slot.
C20_Witness ==
    /\ loop = "dispatch"
    /\ event.Op = "create"
    /\ Ext(event.Name) \notin FileTypes
    /\ workerPool > 0
    /\ waitGroup > 0

(* Properties of the scoring scenarios                                     *)

\* The content calls both system( and eval(.
HasBoth(c) == Count(c, "system(") > 0 /\ Count(c, "eval(") > 0

\* No pattern of the catalogue other than the first matches the content.
OnlyFirstPattern(c) ==
    \A p \in 2..Len(WebshellPatterns) : ~MatchString(p, c)

\* C21 as stated: for content that contains both system( and eval(, each of
\* the two contributes 100 to the regex score (200 before clamping), the
\* feature score is 100 and the result is HIGH with IsWebshell = true.
C21_EachContributes100 ==
    (Done /\ HasBoth(content)) =>
        /\ FGe(matchRegexPatterns(content).score, Flt(200))
        /\ FEq(result.FeatureScore, Flt(100))
        /\ result.RiskLevel = "HIGH"
        /\ result.IsWebshell = TRUE

\* C21 amended: for content that contains both system( and eval(, the two
\* match one pattern, which contributes its 100 once (the regex score is
\* exactly 100 when no other pattern matches), the feature score is 100 and
\* the result is HIGH with IsWebshell = true.
C21_BothMatchOnePattern ==
    (Done /\ HasBoth(content)) =>
        /\ OnlyFirstPattern(content) =>
               FEq(matchRegexPatterns(content).score, Flt(100))
        /\ Len(result.MatchedFeatures) >= 1
        /\ result.MatchedFeatures[1] = WebshellPatterns[1].Pattern
        /\ FEq(result.FeatureScore, Flt(100))
        /\ result.RiskLevel = "HIGH"
        /\ result.IsWebshell = TRUE

\* C21 witness: a finished detection of a file calling both functions, with
\* no rule match, whose regex score and feature score are both 100.
C21_Witness ==
    /\ Done
    /\ HasBoth(content)
    /\ FEq(matchRegexPatterns(content).score, Flt(100))
    /\ Len(result.MatchedFeatures) = 1
    /\ result.RiskLevel = "HIGH"

\* The dot product of the extracted features and the weights of the model,
\* clamped to [0,1] and scaled by 100.
ScaledClampedDot(m, c) ==
    LET dot == DotFrom(extractFeatures(c), m.Weights, 1, Flt(0))
        clamped == IF FGt(dot, Flt(1)) THEN Flt(1)
                   ELSE IF FGt(dot, Flt(0)) THEN dot ELSE Flt(0)
    IN FMul(Flt(100), clamped)

\* C22: ML scoring fails with a dimension-mismatch error exactly when the
\* loaded model declares a feature count other than 5; for every loaded
\* model that declares 5 features, whatever its weight vector, it returns
\* without failure 100 times the dot product clamped to [0,1].
C22_MLDimensionCheck ==
    (cfg.mlEnabled /\ mlModel.loaded /\ pc \in {"scored", "panic"}) =>
        IF mlModel.FeatureCount # 5
        THEN /\ pc = "scored"
             /\ mlDetect(mlModel, content).err = "count"
        ELSE /\ pc = "scored"
             /\ mlDetect(mlModel, content).err = "none"
             /\ FEq(result.MLScore, ScaledClampedDot(mlModel, content))

(* Properties of slot acquisition                                          *)

\* The scan tasks spawned and not yet finished.
Unfinished == {i \in DOMAIN tasks : InFlight(i)}

\* C23 as stated, for a pool of at least one slot: acquiring a slot blocks
\* the dispatching task, so that the number of spawned-but-unfinished scan
\* tasks never exceeds K.
C23_DispatcherBlocksOnSlot ==
    scfg.MaxConcurrency >= 1 => Cardinality(Unfinished) <= scfg.MaxConcurrency

\* C23 amended: acquiring a slot blocks the spawned scan task, not the
\* dispatching task: a dispatch step admits its task whatever the pool
\* holds, takes no slot itself and leaves the new task waiting at its
\* acquisition; every slot taken is held by a scan task past its
\* acquisition, of which there are never more than K.
C23_SlotBlocksScanTask ==
    /\ [](/\ workerPool = Cardinality(Holding)
          /\ workerPool <= scfg.MaxConcurrency)
    /\ [][Len(tasks') > Len(tasks) =>
            /\ Len(tasks') = Len(tasks) + 1
            /\ tasks'[Len(tasks')].pc = "acquire"
            /\ workerPool' = workerPool
            /\ \A i \in DOMAIN tasks : tasks'[i] = tasks[i]]_vars

\* C23 witness: a pool of at least one slot, all slots held, and more
\* spawned-but-unfinished tasks than slots.
C23_Witness ==
    /\ scfg.MaxConcurrency >= 1
    /\ Cardinality(Holding) = scfg.MaxConcurrency
    /\ Cardinality(Unfinished) > scfg.MaxConcurrency

(* Properties of the interpretation of the tracer output                   *)

\* The benign prefixes: temp and cache directories.
BenignPrefixes == {"/tmp/", "/var/cache/"}

\* C24: each dangerous file operation found in the trace is judged on its
\* own target path: unless the line of that operation names a benign prefix,
\* its behaviour entry is in the result and the behaviour score is at least
\* its weight (or the clamp); a benign path elsewhere in the trace does not
\* suppress it.
C24_FileOpJudgedOnOwnPath ==
    (cfg.behEnabled /\ behErr = "none" /\ pc \in {"behaved", "scored"}) =>
        \A l \in trace : \A a \in dangerousFileOps :
            (a.pattern \in l.has /\ l.has \cap BenignPrefixes = {}) =>
                /\ a.behavior \in result.Behaviors
                /\ FGe(result.BehaviorScore, Flt(a.score))

(* Properties of calculateTotalScore                                       *)

\* C25: whenever ML is enabled, the feature score is 0 and no behaviours
\* were found, calculateTotalScore replaces the ML score by one tenth of
\* its raw value (the value that is blended and reported), the behaviour
\* score is 0 and the result is SAFE; when the feature score is non-zero or
\* a behaviour was found, the ML score is left as it was.
C25_MLDampening ==
    [][(pc = "scored" /\ pc' = "done" /\ cfg.mlEnabled) =>
          IF FEq(result.FeatureScore, Flt(0)) /\ result.Behaviors = {}
          THEN /\ result'.MLScore = FMul(result.MLScore, <<1, 10>>)
               /\ FEq(result'.BehaviorScore, Flt(0))
               /\ result'.RiskLevel = "SAFE"
          ELSE result'.MLScore = result.MLScore]_vars

\* C25 witness: a finished detection with ML enabled, no features and no
\* behaviours, whose reported ML score is positive and one tenth of the
\* score the model gives the content.
C25_Witness ==
    /\ Done
    /\ cfg.mlEnabled
    /\ NoFindings
    /\ FGt(result.MLScore, Flt(0))
    /\ FEq(FMul(result.MLScore, Flt(10)), mlDetect(mlModel, content).score)
    /\ result.RiskLevel = "SAFE"

\* C26: a file whose feature score is 0 is never reported as a webshell and
\* never above LOW, whatever the behaviour score, the behaviours, the ML
\* score and the enable flags are.
C26_NoFeatureNeverAboveLow ==
    (Done /\ FEq(result.FeatureScore, Flt(0))) =>
        /\ result.IsWebshell = FALSE
        /\ result.RiskLevel \in {"SAFE", "LOW"}

\* C26 witness: feature score 0 with the behaviour and the ML score both at
\* 100: the blended total is 50 and the result LOW.
C26_Witness ==
    /\ Done
    /\ FEq(result.FeatureScore, Flt(0))
    /\ FEq(result.BehaviorScore, Flt(100))
    /\ FEq(result.MLScore, Flt(100))
    /\ FEq(result.TotalScore, Flt(50))
    /\ result.RiskLevel = "LOW"

\* The feature score of a file matched by the patterns S of the catalogue
\* and by n rules.
RECURSIVE PatternSum(_)
PatternSum(S) ==
    IF S = {} THEN Flt(0)
    ELSE LET p == CHOOSE x \in S : TRUE
         IN FAdd(Flt(WebshellPatterns[p].Score), PatternSum(S \ {p}))

FeatureScoreOf(S, n) ==
    LET sum == FAdd(PatternSum(S), matchYaraRules(n).score)
    IN IF FGt(sum, Flt(100)) THEN Flt(100) ELSE sum

FeatureScoreValues == {Flt(0), Flt(50), Flt(80), Flt(100)}

\* C27: in every result Detect returns, IsWebshell = true exactly when
\* RiskLevel = HIGH: the feature scores that occur are 0, 50, 80 and 100
\* only (for every set of matching patterns and every number of rule
\* matches), so a MEDIUM result never has a feature score above 80, and
\* MEDIUM, LOW and SAFE results carry IsWebshell = false.
C27_WebshellIffHigh ==
    /\ pc = "start" =>
           \A S \in SUBSET DOMAIN WebshellPatterns :
               \A n \in 0..MaxYaraMatches :
                   FeatureScoreOf(S, n) \in FeatureScoreValues
    /\ Done =>
           /\ result.IsWebshell <=> result.RiskLevel = "HIGH"
           /\ result.FeatureScore \in FeatureScoreValues

\* C27 witness: a MEDIUM result whose feature score is 80, not marked.
C27_Witness ==
    /\ Done
    /\ result.RiskLevel = "MEDIUM"
    /\ FEq(result.FeatureScore, Flt(80))
    /\ result.IsWebshell = FALSE

\* C28: the cap of the SAFE override never changes a score: whenever the
\* feature score is 0 and no behaviours were found, the blended total is
\* the total returned, and for an ML score in [0,100] it is at most
\* 100*0.1*0.2/0.7 = 20/7, under every enable combination; the branch that
\* lowers TotalScore to 30 is never taken.
C28_SafeCapNeverApplies ==
    (Done /\ NoFindings) =>
        /\ ~FGt(EnabledAverage, Flt(30))
        /\ result.TotalScore = EnabledAverage
        /\ InRange(result.MLScore) => FLe(result.TotalScore, <<20, 7>>)

\* C28 witness: the largest total of a file with neither features nor
\* behaviours: ML alone enabled, raw ML score 100 dampened to 10.
C28_Witness ==
    /\ Done
    /\ NoFindings
    /\ cfg.mlEnabled
    /\ ~cfg.behEnabled
    /\ FEq(result.MLScore, Flt(10))
    /\ FEq(result.TotalScore, <<20, 7>>)

(* Properties of a failed Start                                            *)

\* The errors with which Start fails before it launches anything.
StartFailures == {"disabled", "walk", "start time"}

\* C29: a Start that returns an error leaves the scheduler idle: after a
\* Start that failed (mode disabled, a directory that cannot be walked or
\* watched, an invalid start time) the running flag is false, and a Start
\* is rejected as already running only when a dispatch task was launched.
C29_FailedStartLeavesIdle ==
    /\ lastErr \in StartFailures => ~isRunning
    /\ lastErr = "already running" => loop # "none"

(* Properties of a failed behaviour analysis                               *)

\* What a run with behaviour analysis enabled and no behaviours returns, as
\* a function of its feature score, the score its model gives the content
\* and the ML flag alone: the ML score, dampened when the feature score is
\* 0; the total, with the behaviour weight 0.3 in the weight sum; the level.
NoBehaviourML ==
    LET m == mlDetect(mlModel, content)
        raw == IF cfg.mlEnabled /\ m.err = "none" THEN m.score ELSE Flt(0)
    IN IF cfg.mlEnabled /\ FEq(result.FeatureScore, Flt(0))
       THEN FMul(raw, <<1, 10>>)
       ELSE raw

NoBehaviourTotal ==
    LET num == FAdd(FMul(result.FeatureScore, <<1, 2>>),
                    IF cfg.mlEnabled THEN FMul(NoBehaviourML, <<1, 5>>) ELSE Flt(0))
        den == 8 + (IF cfg.mlEnabled THEN 2 ELSE 0)
    IN FMul(num, <<10, den>>)

NoBehaviourLevel ==
    IF FEq(result.FeatureScore, Flt(0)) THEN "SAFE"
    ELSE IF FGt(result.FeatureScore, Flt(90)) THEN "HIGH"
    ELSE IF FGe(NoBehaviourTotal, Flt(85)) THEN "HIGH"
    ELSE IF FGe(NoBehaviourTotal, Flt(70)) THEN "MEDIUM"
    ELSE IF FGe(NoBehaviourTotal, Flt(40)) THEN "LOW"
    ELSE "SAFE"

\* C30: a Detect run whose enabled behaviour analysis failed returns the
\* same scores, total, level and mark as a run whose analysis succeeded
\* with no behaviours: both return the behaviour score 0, no behaviours and
\* the one outcome that feature score and ML score determine with the
\* behaviour weight 0.3 kept in the weight sum.
C30_FailedBehaviourAsNoBehaviours ==
    (Done /\ cfg.behEnabled /\ (behErr # "none" \/ result.Behaviors = {})) =>
        /\ result.Behaviors = {}
        /\ FEq(result.BehaviorScore, Flt(0))
        /\ result.MLScore = NoBehaviourML
        /\ result.TotalScore = NoBehaviourTotal
        /\ result.RiskLevel = NoBehaviourLevel
        /\ result.IsWebshell <=> NoBehaviourLevel = "HIGH"

\* C30 witness: a run whose analysis was ended by the deadline, with feature
\* score 80 and a positive ML score, returned LOW.
C30_Witness ==
    /\ Done
    /\ cfg.behEnabled
    /\ cfg.mlEnabled
    /\ behErr = "timeout"
    /\ FEq(result.FeatureScore, Flt(80))
    /\ FGt(result.MLScore, Flt(0))
    /\ result.RiskLevel = "LOW"

====
